---- MODULE Spec2Model ----
(***************************************************************************)
(* IceTcpDemultiplexer (modules/ice/ice_tcp_demultiplexer.{h,cpp}): a      *)
(* byte-stream demultiplexer that re-frames a TCP stream into STUN / TURN  *)
(* Channel Data / RFC 4571 packets.  Bytes are naturals 0..255, ov::Data   *)
(* is a sequence of bytes, std::queue is a sequence.                       *)
(***************************************************************************)
EXTENDS Integers, Sequences, FiniteSets, TLC

\* ------------------------------------------------------------------ bounds
\* Number of wire messages concatenated into one TCP stream.
MaxPieces == 2
\* Number of SetConnectionType calls explored in one behaviour.
MaxSetCalls == 1
\* A read from the socket returns at most MaxChunk bytes, or everything that
\* is left of the stream.
MaxChunk == 4
\* Number of AddExtensionAttributes calls on one candidate.
MaxExtensions == 3

\* --------------------------------------------------------- program constants
MINIMUM_PACKET_HEADER_SIZE == 4
RFC4571_HEADER_SIZE == 2
\* StunMessage::DefaultHeaderLength()
DefaultHeaderLength == 20
\* ChannelDataMessage fixed header: channel number (2) + length (2)
ChannelHeaderLength == 4

ConnectionType == {"Unknown", "TurnRelay", "IceTcpDirect"}

\* ------------------------------------------------------------- ov::Data
\* ov::Data::Subdata(offset, length)
Subdata(data, offset, length) == SubSeq(data, offset + 1, offset + length)

\* ov::Data::Subdata(offset): everything from offset to the end
SubdataFrom(data, offset) == SubSeq(data, offset + 1, Len(data))

\* big-endian 16 bit read of data[offset], data[offset+1] (0-based offset)
ReadBE16(data, offset) == ((data[offset + 1] * 256) + data[offset + 2]) % 65536

\* ------------------------------------------------------ collaborators
\* IcePacketIdentifier::FindPacketType: RFC 7983 first-byte ranges
FindPacketType(data) ==
    IF Len(data) = 0 THEN "UNKNOWN"
    ELSE IF data[1] >= 0 /\ data[1] <= 3 THEN "STUN"
    ELSE IF data[1] >= 64 /\ data[1] <= 79 THEN "TURN_CHANNEL_DATA"
    ELSE "UNKNOWN"

\* StunMessage::ParseHeader + GetLastErrorCode + GetMessageLength.
\* RFC 5389 header: 2 zero bits, type, length, magic cookie 0x2112A442,
\* 96-bit transaction id.  "NOT_ENOUGH_DATA" while the header or the
\* message body is incomplete, "INVALID_DATA" for a malformed header.
StunParseHeader(data) ==
    IF Len(data) < DefaultHeaderLength
    THEN [ok |-> FALSE, error |-> "NOT_ENOUGH_DATA", message_length |-> 0]
    ELSE IF data[1] >= 64
            \/ <<data[5], data[6], data[7], data[8]>> # <<33, 18, 164, 66>>
    THEN [ok |-> FALSE, error |-> "INVALID_DATA", message_length |-> 0]
    ELSE IF Len(data) < DefaultHeaderLength + ReadBE16(data, 2)
    THEN [ok |-> FALSE, error |-> "NOT_ENOUGH_DATA", message_length |-> 0]
    ELSE [ok |-> TRUE, error |-> "SUCCESS", message_length |-> ReadBE16(data, 2)]

\* payload length rounded up to the 4-byte boundary (RFC 5766 over TCP)
PadTo4(n) == ((n + 3) \div 4) * 4

\* ChannelDataMessage::LoadHeader + GetLastErrorCode + GetPacketLength.
\* [channel:u16 0x4000..0x7FFF][length:u16][payload][pad to 4]
ChannelLoadHeader(data) ==
    IF Len(data) < ChannelHeaderLength
    THEN [ok |-> FALSE, error |-> "NOT_ENOUGH_DATA", packet_length |-> 0]
    ELSE IF ReadBE16(data, 0) < 16384 \/ ReadBE16(data, 0) > 32767
    THEN [ok |-> FALSE, error |-> "INVALID_DATA", packet_length |-> 0]
    ELSE IF Len(data) < ChannelHeaderLength + PadTo4(ReadBE16(data, 2))
    THEN [ok |-> FALSE, error |-> "NOT_ENOUGH_DATA", packet_length |-> 0]
    ELSE [ok |-> TRUE, error |-> "SUCCESS",
          packet_length |-> ChannelHeaderLength + PadTo4(ReadBE16(data, 2))]

\* ------------------------------------------------------ demultiplexer core
\* The object is the record d = [buffer, packets, connection_type, trimmed].
\* trimmed is a history field: how many bytes have been cut from the head
\* of the buffer so far; a packet's "off" is the stream offset at which the
\* bytes of its message start.

\* IceTcpDemultiplexer::IceTcpDemultiplexer()
NewDemux == [buffer |-> << >>, packets |-> << >>,
             connection_type |-> "Unknown", trimmed |-> 0]

\* IceTcpDemultiplexer::Packet(type, data)
Packet(type, data, off) == [type |-> type, data |-> data, off |-> off]

\* DetectConnectionType with the length test written "> 20"
DetectConnectionType_StrictLength(d) ==
    IF Len(d.buffer) < RFC4571_HEADER_SIZE
    THEN [detected |-> FALSE, d |-> d]
    ELSE IF /\ Len(d.buffer) >= RFC4571_HEADER_SIZE + 1
            /\ d.buffer[1] = 0
            /\ d.buffer[3] >= 0 /\ d.buffer[3] <= 3
            /\ d.buffer[2] > 20
    THEN [detected |-> TRUE, d |-> [d EXCEPT !.connection_type = "IceTcpDirect"]]
    ELSE IF d.buffer[1] >= 0 /\ d.buffer[1] <= 3
    THEN [detected |-> TRUE, d |-> [d EXCEPT !.connection_type = "TurnRelay"]]
    ELSE IF d.buffer[1] >= 64 /\ d.buffer[1] <= 79
    THEN [detected |-> TRUE, d |-> [d EXCEPT !.connection_type = "TurnRelay"]]
    ELSE [detected |-> FALSE, d |-> d]

\* DetectConnectionType without the test on the second byte
DetectConnectionType_NoLengthTest(d) ==
    IF Len(d.buffer) < RFC4571_HEADER_SIZE
    THEN [detected |-> FALSE, d |-> d]
    ELSE IF /\ Len(d.buffer) >= RFC4571_HEADER_SIZE + 1
            /\ d.buffer[1] = 0
            /\ d.buffer[3] >= 0 /\ d.buffer[3] <= 3
    THEN [detected |-> TRUE, d |-> [d EXCEPT !.connection_type = "IceTcpDirect"]]
    ELSE IF d.buffer[1] >= 0 /\ d.buffer[1] <= 3
    THEN [detected |-> TRUE, d |-> [d EXCEPT !.connection_type = "TurnRelay"]]
    ELSE IF d.buffer[1] >= 64 /\ d.buffer[1] <= 79
    THEN [detected |-> TRUE, d |-> [d EXCEPT !.connection_type = "TurnRelay"]]
    ELSE [detected |-> FALSE, d |-> d]

\* IceTcpDemultiplexer::DetectConnectionType
DetectConnectionType(d) ==
    IF Len(d.buffer) < RFC4571_HEADER_SIZE
    THEN [detected |-> FALSE, d |-> d]
    ELSE IF /\ Len(d.buffer) >= RFC4571_HEADER_SIZE + 1
            /\ d.buffer[1] = 0
            /\ d.buffer[3] >= 0 /\ d.buffer[3] <= 3
            /\ d.buffer[2] >= 20
    THEN [detected |-> TRUE, d |-> [d EXCEPT !.connection_type = "IceTcpDirect"]]
    ELSE IF d.buffer[1] >= 0 /\ d.buffer[1] <= 3
    THEN [detected |-> TRUE, d |-> [d EXCEPT !.connection_type = "TurnRelay"]]
    ELSE IF d.buffer[1] >= 64 /\ d.buffer[1] <= 79
    THEN [detected |-> TRUE, d |-> [d EXCEPT !.connection_type = "TurnRelay"]]
    ELSE [detected |-> FALSE, d |-> d]

\* ExtractStunMessage that takes the header only (forgets the message length)
ExtractStunMessage_HeaderOnly(d) ==
    LET message == StunParseHeader(d.buffer)
        packet_size == DefaultHeaderLength
    IN  IF ~message.ok
        THEN IF message.error = "NOT_ENOUGH_DATA"
             THEN [result |-> "NOT_ENOUGH_BUFFER", d |-> d]
             ELSE [result |-> "FAILED", d |-> d]
        ELSE [result |-> "SUCCESS",
              d |-> [d EXCEPT
                  !.packets = Append(@, Packet("STUN",
                                  Subdata(d.buffer, 0, packet_size), d.trimmed)),
                  !.buffer = SubdataFrom(d.buffer, packet_size),
                  !.trimmed = @ + packet_size]]

\* IceTcpDemultiplexer::ExtractStunMessage
ExtractStunMessage(d) ==
    LET message == StunParseHeader(d.buffer)
        packet_size == DefaultHeaderLength + message.message_length
    IN  IF ~message.ok
        THEN IF message.error = "NOT_ENOUGH_DATA"
             THEN [result |-> "NOT_ENOUGH_BUFFER", d |-> d]
             ELSE [result |-> "FAILED", d |-> d]
        ELSE [result |-> "SUCCESS",
              d |-> [d EXCEPT
                  !.packets = Append(@, Packet("STUN",
                                  Subdata(d.buffer, 0, packet_size), d.trimmed)),
                  !.buffer = SubdataFrom(d.buffer, packet_size),
                  !.trimmed = @ + packet_size]]

\* IceTcpDemultiplexer::ExtractChannelMessage
ExtractChannelMessage(d) ==
    LET message == ChannelLoadHeader(d.buffer)
        packet_size == message.packet_length
    IN  IF ~message.ok
        THEN IF message.error = "NOT_ENOUGH_DATA"
             THEN [result |-> "NOT_ENOUGH_BUFFER", d |-> d]
             ELSE [result |-> "FAILED", d |-> d]
        ELSE [result |-> "SUCCESS",
              d |-> [d EXCEPT
                  !.packets = Append(@, Packet("TURN_CHANNEL_DATA",
                                  Subdata(d.buffer, 0, packet_size), d.trimmed)),
                  !.buffer = SubdataFrom(d.buffer, packet_size),
                  !.trimmed = @ + packet_size]]

\* ExtractRfc4571Frame that trims only frame_length bytes (forgets the prefix)
ExtractRfc4571Frame_ShortTrim(d) ==
    IF Len(d.buffer) < RFC4571_HEADER_SIZE
    THEN [result |-> "NOT_ENOUGH_BUFFER", d |-> d]
    ELSE LET frame_length == ReadBE16(d.buffer, 0)
             total_size == RFC4571_HEADER_SIZE + frame_length
             payload == Subdata(d.buffer, RFC4571_HEADER_SIZE, frame_length)
         IN  IF frame_length < 20 \/ frame_length > 65535
             THEN [result |-> "FAILED", d |-> d]
             ELSE IF Len(d.buffer) < total_size
             THEN [result |-> "NOT_ENOUGH_BUFFER", d |-> d]
             ELSE [result |-> "SUCCESS",
                   d |-> [d EXCEPT
                       !.packets = Append(@, Packet(FindPacketType(payload),
                                                    payload, d.trimmed)),
                       !.buffer = SubdataFrom(d.buffer, frame_length),
                       !.trimmed = @ + frame_length]]

\* ExtractRfc4571Frame without the minimum-length sanity check
ExtractRfc4571Frame_NoMinimum(d) ==
    IF Len(d.buffer) < RFC4571_HEADER_SIZE
    THEN [result |-> "NOT_ENOUGH_BUFFER", d |-> d]
    ELSE LET frame_length == ReadBE16(d.buffer, 0)
             total_size == RFC4571_HEADER_SIZE + frame_length
             payload == Subdata(d.buffer, RFC4571_HEADER_SIZE, frame_length)
         IN  IF frame_length > 65535
             THEN [result |-> "FAILED", d |-> d]
             ELSE IF Len(d.buffer) < total_size
             THEN [result |-> "NOT_ENOUGH_BUFFER", d |-> d]
             ELSE [result |-> "SUCCESS",
                   d |-> [d EXCEPT
                       !.packets = Append(@, Packet(FindPacketType(payload),
                                                    payload, d.trimmed)),
                       !.buffer = SubdataFrom(d.buffer, total_size),
                       !.trimmed = @ + total_size]]

\* ExtractRfc4571Frame that refuses a payload the classifier does not know
ExtractRfc4571Frame_RejectsUnknown(d) ==
    IF Len(d.buffer) < RFC4571_HEADER_SIZE
    THEN [result |-> "NOT_ENOUGH_BUFFER", d |-> d]
    ELSE LET frame_length == ReadBE16(d.buffer, 0)
             total_size == RFC4571_HEADER_SIZE + frame_length
             payload == Subdata(d.buffer, RFC4571_HEADER_SIZE, frame_length)
         IN  IF frame_length < 20 \/ frame_length > 65535
             THEN [result |-> "FAILED", d |-> d]
             ELSE IF Len(d.buffer) < total_size
             THEN [result |-> "NOT_ENOUGH_BUFFER", d |-> d]
             ELSE IF FindPacketType(payload) = "UNKNOWN"
             THEN [result |-> "FAILED", d |-> d]
             ELSE [result |-> "SUCCESS",
                   d |-> [d EXCEPT
                       !.packets = Append(@, Packet(FindPacketType(payload),
                                                    payload, d.trimmed)),
                       !.buffer = SubdataFrom(d.buffer, total_size),
                       !.trimmed = @ + total_size]]

\* ExtractRfc4571Frame that trims only the 2-byte prefix of an extracted frame
ExtractRfc4571Frame_HeaderTrim(d) ==
    IF Len(d.buffer) < RFC4571_HEADER_SIZE
    THEN [result |-> "NOT_ENOUGH_BUFFER", d |-> d]
    ELSE LET frame_length == ReadBE16(d.buffer, 0)
             total_size == RFC4571_HEADER_SIZE + frame_length
             payload == Subdata(d.buffer, RFC4571_HEADER_SIZE, frame_length)
         IN  IF frame_length < 20 \/ frame_length > 65535
             THEN [result |-> "FAILED", d |-> d]
             ELSE IF Len(d.buffer) < total_size
             THEN [result |-> "NOT_ENOUGH_BUFFER", d |-> d]
             ELSE [result |-> "SUCCESS",
                   d |-> [d EXCEPT
                       !.packets = Append(@, Packet(FindPacketType(payload),
                                                    payload, d.trimmed)),
                       !.buffer = SubdataFrom(d.buffer, RFC4571_HEADER_SIZE),
                       !.trimmed = @ + RFC4571_HEADER_SIZE]]

\* IceTcpDemultiplexer::ExtractRfc4571Frame
ExtractRfc4571Frame(d) ==
    IF Len(d.buffer) < RFC4571_HEADER_SIZE
    THEN [result |-> "NOT_ENOUGH_BUFFER", d |-> d]
    ELSE LET frame_length == ReadBE16(d.buffer, 0)
             total_size == RFC4571_HEADER_SIZE + frame_length
             payload == Subdata(d.buffer, RFC4571_HEADER_SIZE, frame_length)
         IN  IF frame_length < 20 \/ frame_length > 65535
             THEN [result |-> "FAILED", d |-> d]
             ELSE IF Len(d.buffer) < total_size
             THEN [result |-> "NOT_ENOUGH_BUFFER", d |-> d]
             ELSE [result |-> "SUCCESS",
                   d |-> [d EXCEPT
                       !.packets = Append(@, Packet(FindPacketType(payload),
                                                    payload, d.trimmed)),
                       !.buffer = SubdataFrom(d.buffer, total_size),
                       !.trimmed = @ + total_size]]

\* the RFC 4571 loop treating NOT_ENOUGH_BUFFER as an error
RECURSIVE Rfc4571Loop_NotEnoughFails(_)
Rfc4571Loop_NotEnoughFails(d) ==
    IF Len(d.buffer) >= RFC4571_HEADER_SIZE
    THEN LET r == ExtractRfc4571Frame(d)
         IN  IF r.result = "SUCCESS" THEN Rfc4571Loop_NotEnoughFails(r.d)
             ELSE [ok |-> FALSE, d |-> r.d]
    ELSE [ok |-> TRUE, d |-> d]

\* the RFC 4571 loop that throws the buffer away when a frame is invalid
RECURSIVE Rfc4571Loop_DropsOnFailure(_)
Rfc4571Loop_DropsOnFailure(d) ==
    IF Len(d.buffer) >= RFC4571_HEADER_SIZE
    THEN LET r == ExtractRfc4571Frame(d)
         IN  IF r.result = "SUCCESS" THEN Rfc4571Loop_DropsOnFailure(r.d)
             ELSE IF r.result = "NOT_ENOUGH_BUFFER" THEN [ok |-> TRUE, d |-> r.d]
             ELSE [ok |-> FALSE,
                   d |-> [r.d EXCEPT !.buffer = << >>,
                                     !.trimmed = @ + Len(r.d.buffer)]]
    ELSE [ok |-> TRUE, d |-> d]

\* ParseData, lines 124-141: the RFC 4571 loop
RECURSIVE Rfc4571Loop(_)
Rfc4571Loop(d) ==
    IF Len(d.buffer) >= RFC4571_HEADER_SIZE
    THEN LET r == ExtractRfc4571Frame(d)
         IN  IF r.result = "SUCCESS" THEN Rfc4571Loop(r.d)
             ELSE IF r.result = "NOT_ENOUGH_BUFFER" THEN [ok |-> TRUE, d |-> r.d]
             ELSE [ok |-> FALSE, d |-> r.d]
    ELSE [ok |-> TRUE, d |-> d]

\* the TURN relay loop that stops quietly on a packet of another type
RECURSIVE TurnLoop_IgnoresOtherTypes(_)
TurnLoop_IgnoresOtherTypes(d) ==
    IF Len(d.buffer) > MINIMUM_PACKET_HEADER_SIZE
    THEN LET type == FindPacketType(d.buffer)
         IN  IF type # "STUN" /\ type # "TURN_CHANNEL_DATA"
             THEN [ok |-> TRUE, d |-> d]
             ELSE LET r == IF type = "STUN" THEN ExtractStunMessage(d)
                                            ELSE ExtractChannelMessage(d)
                  IN  IF r.result = "SUCCESS" THEN TurnLoop_IgnoresOtherTypes(r.d)
                      ELSE IF r.result = "NOT_ENOUGH_BUFFER"
                      THEN [ok |-> TRUE, d |-> r.d]
                      ELSE [ok |-> FALSE, d |-> r.d]
    ELSE [ok |-> TRUE, d |-> d]

\* ParseData, lines 145-184: the TURN relay loop
RECURSIVE TurnLoop(_)
TurnLoop(d) ==
    IF Len(d.buffer) > MINIMUM_PACKET_HEADER_SIZE
    THEN LET type == FindPacketType(d.buffer)
         IN  IF type # "STUN" /\ type # "TURN_CHANNEL_DATA"
             THEN [ok |-> FALSE, d |-> d]
             ELSE LET r == IF type = "STUN" THEN ExtractStunMessage(d)
                                            ELSE ExtractChannelMessage(d)
                  IN  IF r.result = "SUCCESS" THEN TurnLoop(r.d)
                      ELSE IF r.result = "NOT_ENOUGH_BUFFER"
                      THEN [ok |-> TRUE, d |-> r.d]
                      ELSE [ok |-> FALSE, d |-> r.d]
    ELSE [ok |-> TRUE, d |-> d]

\* detection that runs on every call, whatever the mode already is
DetectStep_Redetects(d) ==
    LET r == DetectConnectionType(d)
    IN  IF ~r.detected
        THEN IF Len(d.buffer) < RFC4571_HEADER_SIZE + 1
             THEN [wait |-> d.connection_type = "Unknown", d |-> d]
             ELSE [wait |-> FALSE,
                   d |-> [d EXCEPT !.connection_type = "IceTcpDirect"]]
        ELSE [wait |-> FALSE, d |-> r.d]

\* ParseData, lines 105-119: detection; "wait" = return true before framing
DetectStep(d) ==
    IF d.connection_type = "Unknown"
    THEN LET r == DetectConnectionType(d)
         IN  IF ~r.detected
             THEN IF Len(d.buffer) < RFC4571_HEADER_SIZE + 1
                  THEN [wait |-> TRUE, d |-> d]
                  ELSE [wait |-> FALSE,
                        d |-> [d EXCEPT !.connection_type = "IceTcpDirect"]]
             ELSE [wait |-> FALSE, d |-> r.d]
    ELSE [wait |-> FALSE, d |-> d]

\* IceTcpDemultiplexer::ParseData
ParseData(d) ==
    LET s == DetectStep(d)
    IN  IF s.wait THEN [ok |-> TRUE, d |-> s.d]
        ELSE IF s.d.connection_type = "IceTcpDirect" THEN Rfc4571Loop(s.d)
        ELSE TurnLoop(s.d)

\* IceTcpDemultiplexer::AppendData as a function of the object
AppendDataFn(d, data) == ParseData([d EXCEPT !.buffer = @ \o data])

\* a queue that hands out its newest element
PopFront_Back(q) == [packet |-> q[Len(q)], rest |-> SubSeq(q, 1, Len(q) - 1)]

\* std::queue::front + pop
PopFront(q) == [packet |-> Head(q), rest |-> Tail(q)]

\* ------------------------------------------------- bytes on the connection
Fill(n, b) == [i \in 1..n |-> b]

\* a well-formed STUN message with an m-byte attribute area
StunMsg(m) == <<0, 1, 0, m, 33, 18, 164, 66>> \o Fill(12, 7) \o Fill(m, 9)

\* a TURN Channel Data message, channel 0x4000, n payload bytes plus padding
ChannelMsg(n) == <<64, 0, 0, n>> \o Fill(PadTo4(n), 5)

\* RFC 4571 framing of a payload
Frame(payload) == <<Len(payload) \div 256, Len(payload) % 256>> \o payload

\* the messages a peer may put on the connection: RFC 4571 frames around a
\* STUN message (20 bytes), a Channel Data message (24 bytes) and an RTP-like
\* payload, a frame prefix with length 10, a raw STUN message, raw Channel
\* Data messages without and with payload, and bytes of no known type
Pieces ==
    { Frame(StunMsg(0)), Frame(ChannelMsg(20)), Frame(Fill(20, 128)),
      <<0, 10, 0>>, StunMsg(4), ChannelMsg(0), ChannelMsg(1),
      <<128, 0, 0, 0, 0>> }

\* three-byte stream heads around every boundary of the detection rules
Heads ==
    { <<a, b, c>> : a \in {0, 1, 3, 4, 63, 64, 79, 80, 255},
                    b \in {0, 10, 19, 20, 255},
                    c \in {0, 3, 4, 255} }

RECURSIVE Concats(_)
Concats(n) ==
    IF n = 0 THEN { << >> }
    ELSE Concats(n - 1) \cup { s \o p : s \in Concats(n - 1), p \in Pieces }

Streams == (Concats(MaxPieces) \ { << >> }) \cup Heads

\* ------------------------------------------------------------ IceCandidate
\* ov::String as the sequence of its character codes; operator < on strings
RECURSIVE StrLess(_, _)
StrLess(x, y) ==
    IF y = << >> THEN FALSE
    ELSE IF x = << >> THEN TRUE
    ELSE IF Head(x) # Head(y) THEN Head(x) < Head(y)
    ELSE StrLess(Tail(x), Tail(y))

\* a uint32_t as its two 16-bit halves (the model's integers are narrower
\* than 2^32); the halves wrap as the 32-bit value does
U32(hi, lo) == [hi |-> hi % 65536, lo |-> lo % 65536]

\* uint32_t of a small non-negative number
U32Of(n) == U32(n \div 65536, n)

\* x + y in uint32_t
U32Add(x, y) == U32(x.hi + y.hi + ((x.lo + y.lo) \div 65536), x.lo + y.lo)

\* n << bits in uint32_t, for a small n and bits >= 16
U32ShlHigh(n, bits) == U32(n * (2 ^ (bits - 16)), 0)

\* IceCandidate::CalculatePriority with the type preference shifted by 25
CalculatePriority_WrongShift(type_preference, local_preference, component_id) ==
    U32Add(U32Add(U32ShlHigh(type_preference, 25),
                  U32Of(local_preference * 256)),
           U32Of(256 - component_id))

\* IceCandidate::CalculatePriority (RFC 5245 4.1.2.1), in uint32_t:
\* (type_preference << 24) + (local_preference << 8) + (256 - component_id)
CalculatePriority(type_preference, local_preference, component_id) ==
    U32Add(U32Add(U32ShlHigh(type_preference, 24),
                  U32Of(local_preference * 256)),
           U32Of(256 - component_id))

\* the fields of an IceCandidate that the ordering reads, and one it does
\* not read (the port)
Candidate(priority, foundation, component_id, port) ==
    [priority |-> priority, foundation |-> foundation,
     component_id |-> component_id, port |-> port]

\* IceCandidate(transport, address, port): foundation "0", component 1,
\* priority 0
NewCandidate == Candidate(0, <<48>>, 1, 0)

\* operator < that forgets the component id
Less_NoComponent(x, y) ==
    IF x.priority # y.priority THEN x.priority > y.priority
    ELSE StrLess(x.foundation, y.foundation)

\* IceCandidate::operator <: priority descending, then foundation ascending,
\* then component_id ascending
Less(x, y) ==
    IF x.priority # y.priority THEN x.priority > y.priority
    ELSE IF x.foundation # y.foundation THEN StrLess(x.foundation, y.foundation)
    ELSE x.component_id < y.component_id

\* the candidates compared: two priorities, foundations "0", "1" and "10",
\* two components, two ports
Candidates ==
    { Candidate(p, f, c, port) :
          p \in {2130706431, 2130706175}, f \in {<<48>>, <<49>>, <<49, 48>>},
          c \in {1, 2}, port \in {9, 10000} }

\* no CalculatePriority call yet
NoPriorityCall ==
    [called |-> FALSE, type_preference |-> 0, local_preference |-> 0,
     component_id |-> 1, result |-> U32Of(0)]

\* three candidates not yet compared
NotCompared(a, b, c) ==
    [done |-> FALSE, a |-> a, b |-> b, c |-> c,
     ab |-> FALSE, ba |-> FALSE, bc |-> FALSE, ac |-> FALSE, aa |-> FALSE]

\* std::map insert-or-assign: one value per key
MapPut(map, key, value) ==
    [k \in (DOMAIN map) \cup {key} |-> IF k = key THEN value ELSE map[k]]

\* the smallest key of a non-empty set of strings
MinKey(keys) == CHOOSE k \in keys : \A other \in keys \ {k} : StrLess(k, other)

\* iteration over a std::map: the (key, value) pairs in key order; this is
\* the order in which the candidate string lists the extension attributes
RECURSIVE MapPairs(_, _)
MapPairs(map, keys) ==
    IF keys = {} THEN << >>
    ELSE << <<MinKey(keys), map[MinKey(keys)]>> >>
             \o MapPairs(map, keys \ {MinKey(keys)})

\* the extension part of IceCandidate::GetCandidateString
EmittedExtensions(map) == MapPairs(map, DOMAIN map)

\* extension attribute names and values used: "generation", "tcptype",
\* "ufrag" as 1, 2, 3-letter stand-ins "g", "t", "u"
ExtKeys == { <<103>>, <<116>>, <<117>> }
ExtValues == { <<48>>, <<49>> }

\* ------------------------------------------------------------ state machine
VARIABLES
    buffer,           \* _buffer
    packets,          \* _packets
    connection_type,  \* _connection_type
    trimmed,          \* history: bytes cut from the head of _buffer so far
    wire,             \* bytes of the TCP stream not yet read by the owner
    input,            \* history: every byte passed to AppendData so far
    produced,         \* history: every packet pushed to _packets so far
    popped,           \* history: every packet returned by PopPacket so far
    ret,              \* what the most recent AppendData returned
    appends,          \* history: AppendData calls so far, saturating at 2
    setCalls,         \* history: SetConnectionType calls so far
    failed            \* history: some AppendData has returned false

\* IceCandidate (modules/ice/ice_candidate.h)
VARIABLES
    priority_call,         \* the last CalculatePriority call and its result
    compared,              \* three candidates and the results of operator <
    extension_attributes,  \* _extension_attributes (std::map: key -> value)
    added                  \* history: every (key, value) given to
                           \* AddExtensionAttributes, in call order

demuxVars == <<buffer, packets, connection_type, trimmed, wire, input, produced,
               popped, ret, appends, setCalls, failed>>

candidateVars == <<priority_call, compared, extension_attributes, added>>

vars == <<buffer, packets, connection_type, trimmed, wire, input, produced,
          popped, ret, appends, setCalls, failed,
          priority_call, compared, extension_attributes, added>>

Demux == [buffer |-> buffer, packets |-> packets,
          connection_type |-> connection_type, trimmed |-> trimmed]

Init ==
    /\ buffer = NewDemux.buffer
    /\ packets = NewDemux.packets
    /\ connection_type = NewDemux.connection_type
    /\ trimmed = NewDemux.trimmed
    /\ wire \in Streams
    /\ input = << >>
    /\ produced = << >>
    /\ popped = << >>
    /\ ret = TRUE
    /\ appends = 0
    /\ setCalls = 0
    /\ failed = FALSE
    /\ priority_call = NoPriorityCall
    /\ compared = NotCompared(NewCandidate, NewCandidate, NewCandidate)
    /\ extension_attributes = << >>
    /\ added = << >>

\* bool AppendData(data, length): the owner reads the next n bytes of the
\* stream and hands them over
AppendData ==
    \E n \in { k \in 1..Len(wire) : k <= MaxChunk \/ k = Len(wire) } :
        LET data == SubSeq(wire, 1, n)
            r == AppendDataFn(Demux, data)
        IN  /\ buffer' = r.d.buffer
            /\ packets' = r.d.packets
            /\ connection_type' = r.d.connection_type
            /\ trimmed' = r.d.trimmed
            /\ wire' = SubSeq(wire, n + 1, Len(wire))
            /\ input' = input \o data
            /\ produced' = produced \o
                   SubSeq(r.d.packets, Len(packets) + 1, Len(r.d.packets))
            /\ ret' = r.ok
            /\ appends' = IF appends < 2 THEN appends + 1 ELSE appends
            /\ failed' = (failed \/ ~r.ok)
            /\ UNCHANGED <<popped, setCalls>>
            /\ UNCHANGED candidateVars

\* IceTcpDemultiplexer::IsAvailablePacket
IsAvailablePacket == packets # << >>

\* IceTcpDemultiplexer::PopPacket as a function of the object: what it
\* returns (the empty sequence for nullptr, else the one packet) and the
\* object afterwards
PopPacketFn(d) ==
    IF d.packets = << >>
    THEN [out |-> << >>, d |-> d]
    ELSE [out |-> << PopFront(d.packets).packet >>,
          d |-> [d EXCEPT !.packets = PopFront(d.packets).rest]]

\* IceTcpDemultiplexer::PopPacket
PopPacket ==
    LET r == PopPacketFn(Demux)
    IN  /\ packets' = r.d.packets
        /\ popped' = popped \o r.out
        /\ UNCHANGED <<buffer, connection_type, trimmed, wire, input,
                       produced, ret, appends, setCalls, failed>>
        /\ UNCHANGED candidateVars

\* IceTcpDemultiplexer::SetConnectionType
SetConnectionType ==
    \E type \in ConnectionType :
        /\ setCalls < MaxSetCalls
        /\ connection_type' = type
        /\ setCalls' = setCalls + 1
        /\ UNCHANGED <<buffer, packets, trimmed, wire, input, produced,
                       popped, ret, appends, failed>>
        /\ UNCHANGED candidateVars

Next == AppendData \/ PopPacket \/ SetConnectionType

Spec == Init /\ [][Next]_vars

\* a demultiplexer that is never used: the candidate specifications leave it
\* as constructed
DemuxUnused ==
    /\ buffer = NewDemux.buffer
    /\ packets = NewDemux.packets
    /\ connection_type = NewDemux.connection_type
    /\ trimmed = NewDemux.trimmed
    /\ wire = << >>
    /\ input = << >>
    /\ produced = << >>
    /\ popped = << >>
    /\ ret = TRUE
    /\ appends = 0
    /\ setCalls = 0
    /\ failed = FALSE

\* static uint32_t CalculatePriority(type_preference, local_preference,
\* component_id) applied to the arguments drawn in InitPriority
CalculatePriorityCall ==
    /\ ~priority_call.called
    /\ priority_call' =
           [priority_call EXCEPT
               !.called = TRUE,
               !.result = CalculatePriority(priority_call.type_preference,
                                            priority_call.local_preference,
                                            priority_call.component_id)]
    /\ UNCHANGED <<compared, extension_attributes, added>>
    /\ UNCHANGED demuxVars

\* the arguments: every type preference of [0,126] and the boundary values
\* of the local preference [0,65535] and of the component id [1,256]
InitPriority ==
    /\ DemuxUnused
    /\ priority_call \in
           { [NoPriorityCall EXCEPT !.type_preference = tp,
                                    !.local_preference = lp,
                                    !.component_id = cid] :
                 tp \in 0..126,
                 lp \in {0, 1, 255, 256, 8191, 65534, 65535},
                 cid \in {1, 2, 255, 256} }
    /\ compared = NotCompared(NewCandidate, NewCandidate, NewCandidate)
    /\ extension_attributes = << >>
    /\ added = << >>

SpecPriority == InitPriority /\ [][CalculatePriorityCall]_vars

\* operator < applied to the pairs of three candidates
Compare ==
    /\ ~compared.done
    /\ compared' = [compared EXCEPT
           !.done = TRUE,
           !.ab = Less(compared.a, compared.b),
           !.ba = Less(compared.b, compared.a),
           !.bc = Less(compared.b, compared.c),
           !.ac = Less(compared.a, compared.c),
           !.aa = Less(compared.a, compared.a)]
    /\ UNCHANGED <<priority_call, extension_attributes, added>>
    /\ UNCHANGED demuxVars

InitOrder ==
    /\ DemuxUnused
    /\ priority_call = NoPriorityCall
    /\ compared \in { NotCompared(a, b, c) : a \in Candidates, b \in Candidates,
                                            c \in Candidates }
    /\ extension_attributes = << >>
    /\ added = << >>

SpecOrder == InitOrder /\ [][Compare]_vars

\* IceCandidate::AddExtensionAttributes(key, value)
AddExtensionAttributes ==
    \E key \in ExtKeys, value \in ExtValues :
        /\ Len(added) < MaxExtensions
        /\ extension_attributes' = MapPut(extension_attributes, key, value)
        /\ added' = Append(added, <<key, value>>)
        /\ UNCHANGED <<priority_call, compared>>
        /\ UNCHANGED demuxVars

InitExtensions ==
    /\ DemuxUnused
    /\ priority_call = NoPriorityCall
    /\ compared = NotCompared(NewCandidate, NewCandidate, NewCandidate)
    /\ extension_attributes = << >>
    /\ added = << >>

SpecExtensions == InitExtensions /\ [][AddExtensionAttributes]_vars

\* ------------------------------------------------------------- properties
\* the object a fresh demultiplexer becomes when it is given every byte
\* appended so far in one single AppendData call
OneShot == AppendDataFn(NewDemux, input)

\* the bytes a packet occupied on the stream, given the framing in use
Reframed(p) ==
    IF connection_type = "IceTcpDirect" THEN Frame(p.data) ELSE p.data

RECURSIVE Flatten(_)
Flatten(ps) == IF ps = << >> THEN << >> ELSE Reframed(Head(ps)) \o Flatten(Tail(ps))

\* C1: feeding the stream in chunks gives the same mode and the same ordered
\* packets as feeding the same bytes to a fresh demultiplexer in one call,
\* provided no call returned failure.
C1_ChunkInvariance ==
    (setCalls = 0 /\ ~failed /\ OneShot.ok)
        => /\ connection_type = OneShot.d.connection_type
           /\ produced = OneShot.d.packets

\* C2: with only AppendData/PopPacket calls and no failure, the packets
\* produced so far (re-framed: 2-byte length prefix in IceTcpDirect mode,
\* payload alone in TurnRelay mode) followed by the residual buffer are
\* exactly the bytes appended so far.
C2_FramingCompleteness ==
    (setCalls = 0 /\ ~failed) => Flatten(produced) \o buffer = input

\* C2 witness: frames of 20 and 24 bytes in one AppendData give two packets
\* of 20 and 24 bytes and an empty buffer
C2_Witness ==
    /\ setCalls = 0 /\ ~failed /\ appends = 1
    /\ connection_type = "IceTcpDirect"
    /\ Len(produced) = 2
    /\ Len(produced[1].data) = 20 /\ Len(produced[2].data) = 24
    /\ buffer = << >>

\* C3: PopPacket returns the packets in stream order: the packets popped so
\* far are exactly the first packets ever enqueued, in that order, and their
\* stream offsets strictly increase (none twice, none skipped).
C3_StreamOrder ==
    /\ Len(popped) <= Len(produced)
    /\ popped = SubSeq(produced, 1, Len(popped))
    /\ \A i, j \in 1..Len(popped) : i < j => popped[i].off < popped[j].off

\* C3 witness: two packets of one stream have been popped
C3_Witness ==
    /\ Len(popped) = 2
    /\ popped[1].off < popped[2].off

\* C4: once the mode is not Unknown no public operation changes it.
C4_ModeMonotonic ==
    [][connection_type # "Unknown" => connection_type' = connection_type]_vars

\* C5: if the mode is Unknown the pending packet queue is empty.
C5_UnknownHasNoPackets ==
    connection_type = "Unknown" => ~IsAvailablePacket

\* C6: while fewer than 3 bytes have been appended to a demultiplexer that
\* started Unknown, the mode stays Unknown and AppendData returns success.
C6_NoDetectionBelow3 ==
    (setCalls = 0 /\ appends >= 1 /\ Len(input) < 3)
        => (connection_type = "Unknown" /\ ret)

\* the detection rule as the specification states it
ExpectedMode(b0, b1, b2) ==
    IF b0 = 0 /\ b2 <= 3 /\ b1 >= 20 THEN "IceTcpDirect"
    ELSE IF b0 <= 3 THEN "TurnRelay"
    ELSE IF b0 >= 64 /\ b0 <= 79 THEN "TurnRelay"
    ELSE "IceTcpDirect"

\* C7: after a first AppendData of at least 3 bytes on a fresh demultiplexer
\* the mode is the one the detection rule gives for the first three bytes,
\* and it is never Unknown.
C7_DetectionFunction ==
    (setCalls = 0 /\ appends = 1 /\ Len(input) >= 3)
        => /\ connection_type = ExpectedMode(input[1], input[2], input[3])
           /\ connection_type # "Unknown"

\* C7 witness: a first chunk that matches no pattern falls back to
\* IceTcpDirect
C7_Witness ==
    /\ setCalls = 0 /\ appends = 1 /\ Len(input) >= 3
    /\ input[1] = 255
    /\ connection_type = "IceTcpDirect"

\* a complete message of the given framing sits at the head of the bytes
CompleteAtHead(data, mode) ==
    IF mode = "IceTcpDirect"
    THEN /\ Len(data) >= RFC4571_HEADER_SIZE
         /\ ReadBE16(data, 0) >= 20
         /\ Len(data) >= RFC4571_HEADER_SIZE + ReadBE16(data, 0)
    ELSE \/ FindPacketType(data) = "STUN" /\ StunParseHeader(data).ok
         \/ FindPacketType(data) = "TURN_CHANNEL_DATA" /\ ChannelLoadHeader(data).ok

\* a step of AppendData: it is the only operation that takes bytes
AppendStep == input' # input

\* C8: when AppendData returns success with a known mode, the residual
\* buffer does not begin with a complete message of the current framing.
C8_CompleteAtReturn ==
    [][(AppendStep /\ ret' /\ connection_type' # "Unknown")
           => ~CompleteAtHead(buffer', connection_type')]_vars

\* C9: in IceTcpDirect mode an AppendData that ends on a buffer of at least
\* 2 bytes whose length prefix is below 20 returns failure, and no packet
\* has been enqueued for the bytes from that prefix on.
C9_InvalidLengthFails ==
    [][(/\ AppendStep
        /\ connection_type' = "IceTcpDirect"
        /\ Len(buffer') >= RFC4571_HEADER_SIZE
        /\ ReadBE16(buffer', 0) < 20)
           => /\ ~ret'
              /\ \A i \in 1..Len(produced') :
                     produced'[i].off + Len(produced'[i].data) <= trimmed']_vars

\* C9 witness: auto-detected IceTcpDirect, a valid frame was extracted and
\* AppendData failed on the prefix 00 0A that follows it
C9_Witness ==
    /\ setCalls = 0 /\ ~ret
    /\ connection_type = "IceTcpDirect"
    /\ Len(produced) >= 1
    /\ Len(buffer) >= RFC4571_HEADER_SIZE
    /\ ReadBE16(buffer, 0) = 10

\* C10 as claimed: a stream beginning 00 0A and one more byte, on a fresh
\* auto-detecting demultiplexer, goes to the RFC 4571 extractor and
\* AppendData returns failure.
C10_Original ==
    (setCalls = 0 /\ Len(input) >= 3 /\ input[1] = 0 /\ input[2] = 10)
        => (connection_type = "IceTcpDirect" /\ ~ret)

\* C10 amended: on a fresh auto-detecting demultiplexer a stream beginning
\* 00 0A is detected as TurnRelay (never IceTcpDirect) and AppendData keeps
\* returning success while fewer than 20 bytes are buffered; the RFC 4571
\* extractor rejects 00 0A only when the mode is IceTcpDirect.
C10_Amended ==
    [][/\ (/\ AppendStep /\ setCalls' = 0
           /\ Len(input') >= 3 /\ input'[1] = 0 /\ input'[2] = 10)
              => /\ connection_type' = "TurnRelay"
                 /\ (Len(input') < DefaultHeaderLength => ret')
       /\ (/\ AppendStep /\ connection_type' = "IceTcpDirect"
           /\ Len(buffer') >= RFC4571_HEADER_SIZE
           /\ buffer'[1] = 0 /\ buffer'[2] = 10)
              => ~ret']_vars

\* C10 witness: 00 0A 00 arrived in one call and was taken for TURN
C10_Witness ==
    /\ setCalls = 0 /\ appends = 1 /\ ret
    /\ input = <<0, 10, 0>>
    /\ connection_type = "TurnRelay"

\* the bytes handed over by an AppendData step
Chunk == SubSeq(input', Len(input) + 1, Len(input'))

\* the buffer is exactly the bytes appended and not yet consumed
BufferIsResidual(buf, inp, cut) == buf = SubSeq(inp, cut + 1, Len(inp))

\* every packet in ps lies on the stream before offset cut
AllBefore(ps, cut) == \A i \in 1..Len(ps) : ps[i].off + Len(ps[i].data) <= cut

\* the bytes begin with an RFC 4571 prefix 20 <= L whose frame is incomplete
PartialFrame(data) ==
    /\ Len(data) >= RFC4571_HEADER_SIZE
    /\ ReadBE16(data, 0) >= 20
    /\ Len(data) < RFC4571_HEADER_SIZE + ReadBE16(data, 0)

\* C11: in IceTcpDirect mode an AppendData that ends on an incomplete frame
\* with 20 <= L returns success, enqueues nothing for that frame and keeps
\* exactly the unconsumed bytes; an AppendData that completes such a frame
\* emits it (payload without the prefix, labelled by the classifier).
C11_PartialNotFatal ==
    [][/\ (AppendStep /\ connection_type' = "IceTcpDirect"
                      /\ PartialFrame(buffer'))
              => /\ ret'
                 /\ BufferIsResidual(buffer', input', trimmed')
                 /\ AllBefore(produced', trimmed')
       /\ (/\ AppendStep /\ connection_type = "IceTcpDirect"
           /\ PartialFrame(buffer)
           /\ Len(buffer) + Len(Chunk)
                  >= RFC4571_HEADER_SIZE + ReadBE16(buffer, 0))
              => /\ Len(produced') > Len(produced)
                 /\ LET payload == Subdata(buffer \o Chunk, RFC4571_HEADER_SIZE,
                                           ReadBE16(buffer, 0))
                    IN  produced'[Len(produced) + 1]
                            = Packet(FindPacketType(payload), payload, trimmed)]_vars

\* C11 witness: one frame arrived in two reads, the first one partial, and
\* the second read emitted it
C11_Witness ==
    /\ setCalls = 0 /\ appends = 2 /\ ret
    /\ connection_type = "IceTcpDirect"
    /\ input = Frame(StunMsg(0))
    /\ Len(produced) = 1 /\ produced[1].data = StunMsg(0)
    /\ buffer = << >>

\* C12: in TurnRelay mode an AppendData that ends on a buffer of more than
\* 4 bytes whose head the classifier labels neither STUN nor
\* TURN_CHANNEL_DATA returns failure; nothing is enqueued for those bytes and
\* they stay at the head of the buffer.
C12_TurnRejectsOtherTypes ==
    [][(/\ AppendStep /\ connection_type' = "TurnRelay"
        /\ Len(buffer') > MINIMUM_PACKET_HEADER_SIZE
        /\ FindPacketType(buffer') \notin {"STUN", "TURN_CHANNEL_DATA"})
           => /\ ~ret'
              /\ BufferIsResidual(buffer', input', trimmed')
              /\ AllBefore(produced', trimmed')]_vars

\* C12 witness: a Channel Data message was extracted and the bytes 80 00 ..
\* that follow it made AppendData fail
C12_Witness ==
    /\ setCalls = 0 /\ ~ret
    /\ connection_type = "TurnRelay"
    /\ Len(produced) = 1
    /\ Len(buffer) > MINIMUM_PACKET_HEADER_SIZE
    /\ buffer[1] = 128

\* C13: in IceTcpDirect mode every complete frame with 20 <= L is enqueued
\* with the label the classifier gives its payload, whatever that label is,
\* and AppendData fails only on a length prefix below 20.
C13_DirectNeverRejectsPayload ==
    [][(AppendStep /\ connection_type' = "IceTcpDirect")
           => /\ \A i \in (Len(produced) + 1)..Len(produced') :
                     /\ produced'[i].type = FindPacketType(produced'[i].data)
                     /\ Len(produced'[i].data) >= 20
              /\ ~CompleteAtHead(buffer', "IceTcpDirect")
              /\ (~ret' => /\ Len(buffer') >= RFC4571_HEADER_SIZE
                           /\ ReadBE16(buffer', 0) < 20)]_vars

\* C13 witness: a frame with an RTP-like payload was enqueued as UNKNOWN
\* after a STUN frame, and AppendData returned success
C13_Witness ==
    /\ setCalls = 0 /\ ret
    /\ connection_type = "IceTcpDirect"
    /\ Len(produced) = 2
    /\ produced[1].type = "STUN"
    /\ produced[2].type = "UNKNOWN"

\* the packets pushed by a step, and the bytes each of them took off the
\* buffer (up to the next packet's offset, or to the final cut)
NewFrom == Len(produced) + 1
Consumed(i) ==
    (IF i < Len(produced') THEN produced'[i + 1].off ELSE trimmed')
        - produced'[i].off

C18_AppendPopKeepMode ==
    /\ [](/\ PopPacketFn(Demux).d.buffer = buffer
          /\ PopPacketFn(Demux).d.connection_type = connection_type
          /\ ~IsAvailablePacket =>
                 PopPacketFn(Demux) = [out |-> << >>, d |-> Demux])
    /\ [][(setCalls' = setCalls /\ connection_type # "Unknown")
              => connection_type' = connection_type]_vars
    /\ [][popped' # popped
              => (buffer' = buffer /\ connection_type' = connection_type)]_vars

\* C18 witness: IceTcpDirect was preset, then a whole Channel Data message
\* (which auto-detection takes for TURN) arrived in one read
C18_Witness ==
    /\ setCalls = 1 /\ appends = 1
    /\ connection_type = "IceTcpDirect"
    /\ input = ChannelMsg(1)
    /\ produced = << >>

\* the object is stuck: parsing its buffer again fails at once, without
\* extracting anything
Misframed(d) == ParseData(d) = [ok |-> FALSE, d |-> d]

\* C19: an AppendData that returns failure leaves the object stuck; from a
\* stuck object every AppendData returns failure and pushes nothing, and
\* PopPacket keeps handing out the packets queued before, in order.
C19_MisframeTerminal ==
    [][/\ (AppendStep /\ ~ret')
              => /\ Misframed(Demux')
                 /\ Len(packets') >= Len(packets)
                 /\ SubSeq(packets', 1, Len(packets)) = packets
       /\ (AppendStep /\ Misframed(Demux))
              => (~ret' /\ produced' = produced /\ packets' = packets)
       /\ (popped' # popped /\ Misframed(Demux))
              => /\ Misframed(Demux')
                 /\ popped' = Append(popped, Head(packets))
                 /\ packets' = Tail(packets)]_vars

\* C19 witness: 00 0A 00 and a frame, read at most MaxChunk bytes at a time:
\* the malformed STUN header failed at 20 bytes and the reads up to byte 24
\* failed again
C19_Witness ==
    /\ setCalls = 0 /\ failed /\ ~ret
    /\ connection_type = "TurnRelay"
    /\ wire # << >>
    /\ Len(input) = DefaultHeaderLength + MaxChunk
    /\ input[1] = 0 /\ input[2] = 10

\* C20: every packet pushed by an AppendData took its whole size off the
\* buffer: 2 + L >= 22 bytes in IceTcpDirect mode, the packet size (at least
\* a header) in TurnRelay mode; so one call pushes at most as many packets
\* as the buffered bytes allow and the buffer never grows by more than the
\* bytes appended.
C20_LoopProgress ==
    [][AppendStep
           => /\ \A i \in NewFrom..Len(produced') :
                     IF connection_type' = "IceTcpDirect"
                     THEN /\ Consumed(i) = RFC4571_HEADER_SIZE + Len(produced'[i].data)
                          /\ Consumed(i) >= 22
                     ELSE /\ Consumed(i) = Len(produced'[i].data)
                          /\ Consumed(i) >= ChannelHeaderLength
                          /\ produced'[i].type = "STUN" =>
                                 Consumed(i) >= DefaultHeaderLength
              /\ trimmed' >= trimmed
              /\ Len(buffer') = Len(buffer) + Len(Chunk) - (trimmed' - trimmed)
              /\ (Len(produced') - Len(produced)) * ChannelHeaderLength
                     <= Len(buffer) + Len(Chunk)]_vars

\* C20 witness: one AppendData ran the loop three times: two packets, then
\* it stopped on the empty buffer
C20_Witness ==
    /\ setCalls = 0 /\ appends = 1 /\ ret
    /\ connection_type = "TurnRelay"
    /\ input = StunMsg(4) \o ChannelMsg(1)
    /\ Len(produced) = 2
    /\ buffer = << >>

\* C14: for type_preference in [0,126], local_preference in [0,65535] and
\* component_id in [1,256], CalculatePriority returns
\* type_preference*2^24 + local_preference*2^8 + (256 - component_id), and
\* that exact value is below 2^32 (the 32-bit arithmetic does not wrap).
C14_PriorityFormula ==
    priority_call.called =>
        LET low   == priority_call.local_preference * 256
                       + (256 - priority_call.component_id)
            \* the exact value is exactHigh * 2^16 + exactLow
            exactHigh == priority_call.type_preference * 256
                           + (low \div 65536)
            exactLow  == low % 65536
        IN  /\ priority_call.result.hi = exactHigh
            /\ priority_call.result.lo = exactLow
            /\ exactHigh < 65536

\* C14 witness: the largest arguments, 126 / 65535 / 1, give 2130706431,
\* 0x7EFFFFFF
C14_Witness ==
    /\ priority_call.called
    /\ priority_call.type_preference = 126
    /\ priority_call.local_preference = 65535
    /\ priority_call.component_id = 1
    /\ priority_call.result = [hi |-> 32511, lo |-> 65535]

\* the fields operator < reads
OrderKey(x) == <<x.priority, x.foundation, x.component_id>>

\* C15 as claimed: the comparison is irreflexive, transitive and total: of
\* two candidates that differ in any field exactly one is less than the
\* other.
C15_Original ==
    compared.done =>
        /\ ~compared.aa
        /\ (compared.ab /\ compared.bc) => compared.ac
        /\ compared.a # compared.b => (compared.ab # compared.ba)

\* C15 amended: the comparison is irreflexive, asymmetric and transitive,
\* and of two candidates that differ in priority, foundation or component_id
\* exactly one is less than the other; candidates equal in these three
\* fields are not ordered, whatever their other fields.
C15_Amended ==
    compared.done =>
        /\ ~compared.aa
        /\ ~(compared.ab /\ compared.ba)
        /\ (compared.ab /\ compared.bc) => compared.ac
        /\ OrderKey(compared.a) # OrderKey(compared.b)
               => (compared.ab # compared.ba)
        /\ OrderKey(compared.a) = OrderKey(compared.b)
               => (~compared.ab /\ ~compared.ba)

\* C15 witness: a and b tie on priority and foundation and the component id
\* decides, b and c tie on everything but the port
C15_Witness ==
    /\ compared.done
    /\ compared.a.priority = compared.b.priority
    /\ compared.a.foundation = compared.b.foundation
    /\ compared.a.component_id < compared.b.component_id
    /\ compared.ab /\ ~compared.ba
    /\ compared.b # compared.c
    /\ OrderKey(compared.b) = OrderKey(compared.c)
    /\ compared.ac

\* C16: the serialized candidate lists every added (name, value) pair, in
\* the order the pairs were added, pairs with the same key included.
C16_InsertionOrder ==
    EmittedExtensions(extension_attributes) = added

====
